---------------------------- MODULE Spec2Model ----------------------------
(***************************************************************************)
(* pykraken2 server: one kraken2 subprocess shared by network clients.     *)
(*                                                                         *)
(* Two server threads are modelled statement by statement:                 *)
(*   recv            (the ingest loop, Server.recv and its handlers        *)
(*                    start / run_batch / stop)                           *)
(*   return_results  (the demultiplexer loop)                              *)
(* together with the kraken2 subprocess (one result line per input record, *)
(* written a batch of K2_BATCH_SIZE records at a time) and the clients.    *)
(*                                                                         *)
(* The subprocess standard output is a character stream.  The result line  *)
(* of the i-th record written to stdin occupies the characters             *)
(* EndOff(i-1) .. EndOff(i)-1 of that stream, so a piece of output is a    *)
(* range <<lo, hi>> of stream offsets (hi exclusive).                      *)
(***************************************************************************)
EXTENDS Integers, Sequences, FiniteSets, TLC

\* ------------------------------------------------------------------ bounds
\* records of a small and of a large sample
SmallSample == 3
LargeSample == 19
\* records a client puts in one RUN_BATCH window
WindowRecs == 10
\* characters of a genuine result line and of a filler result line
GenuineLineLen == 4200
FillerLineLen == 20

\* ------------------------------------------------------- program constants
K2_BATCH_SIZE == 20
READ_SIZE == 10000

\* the two clients of test_020_multi_client, samples '1' and '2'
Clients == {1, 2}
SampleSizes == {SmallSample, LargeSample}

VARIABLES
    lock,                      \* self.lock
    all_seqs_submitted_event,  \* threading.Event
    start_sample_event,        \* threading.Event
    terminate_event,           \* threading.Event
    tpc,                       \* position of the thread that calls terminate()
    k2eof,                     \* the kraken2 process has exited (its pipes are closed)
    stdin,                     \* every record written to k2proc.stdin, in order
    k2done,                    \* number of records kraken2 has written results for
    rd,                        \* offset of k2proc.stdout consumed by the server
    ipc, cur, reply,           \* recv thread: position, request, handler result
    rpc, final_lines,          \* return thread: position, drain buffer
    rmsg, rack,                \* result endpoint: message in flight, ack in flight
    creq, crep,                \* control endpoint: request / reply per client socket
    cpc, csize, csent, cout, cdone,  \* clients
    holder,                    \* history: client of the last granted START (0: none)
    session,                   \* history: session state per client
    msgs,                      \* history: signals sent on the result endpoint this session
    unacked,                   \* history: result messages sent and not yet acknowledged
    overlap,                   \* history: a START was sent while another sample was under way
    owed,                      \* history: requests received and not yet replied to
    mark,                      \* history: Len(stdin) when the current request was dispatched
    seen                       \* history: value of self.lock read by start()

vars == << lock, all_seqs_submitted_event, start_sample_event, terminate_event,
           tpc, k2eof,
           stdin, k2done, rd, ipc, cur, reply, rpc, final_lines, rmsg, rack,
           creq, crep, cpc, csize, csent, cout, cdone,
           holder, session, msgs, unacked, overlap, owed, mark, seen >>

\* shutdown and subprocess life cycle
lifeVars == << terminate_event, tpc, k2eof >>
srvFlags == << lock, all_seqs_submitted_event, start_sample_event, lifeVars >>
k2Vars == << stdin, k2done >>
recvVars == << ipc, cur, reply >>
retVars == << rpc, final_lines, rd >>
resVars == << rmsg, rack >>
ctlVars == << creq, crep >>
cliVars == << cpc, csize, csent, cout, cdone >>
histVars == << holder, session, msgs, unacked, overlap, owed, mark, seen >>

\* --------------------------------------------------------------- messages
\* KrakenSignals: the signal names; "OTHER" stands for any value that is not
\* a client-to-server member of the enum.
NoReq == [sig |-> "NONE", c |-> 0, recs |-> << >>, final |-> FALSE]
NoMsg == [sig |-> "NONE", pl |-> << >>]
NoRep == "none"
Req(s, c, recs, final) == [sig |-> s, c |-> c, recs |-> recs, final |-> final]

\* ------------------------------------------------------- sentinel protocol
\* fake_sequence.format(name): a filler record named START, END or DUMMY_x
Filler(kind, x) == [k |-> kind, c |-> 0, n |-> x]
\* (a flush that is one filler short of the batch size)
flush_short == [x \in 1 .. K2_BATCH_SIZE - 1 |-> Filler("DUMMY", x - 1)]

\* flush_seqs: DUMMY_0 .. DUMMY_(K2_BATCH_SIZE-1)
flush_seqs == [x \in 1 .. K2_BATCH_SIZE |-> Filler("DUMMY", x - 1)]
\* the n-th record of client c's sample
SeqRec(c, n) == [k |-> "SEQ", c |-> c, n |-> n]

\* ------------------------------------------------- subprocess output stream
\* characters of the result line kraken2 writes for a record
LineLen(r) == IF r.k = "SEQ" THEN GenuineLineLen ELSE FillerLineLen

\* offset just past the result line of the i-th stdin record (kept with the
\* record when it is written, see Write)
EndOff(i) == IF i = 0 THEN 0 ELSE stdin[i].e

\* characters of the result lines of the first i records of recs
CumLen(recs, i) ==
    LET genuine == Cardinality({j \in 1 .. i : recs[j].k = "SEQ"})
    IN genuine * GenuineLineLen + (i - genuine) * FillerLineLen

\* k2proc.stdin.write: the records appended to what was written before
Write(s, recs) ==
    s \o [i \in 1 .. Len(recs) |->
            [k |-> recs[i].k, c |-> recs[i].c, n |-> recs[i].n,
             e |-> (IF s = << >> THEN 0 ELSE s[Len(s)].e) + CumLen(recs, i)]]

\* characters kraken2 has written to its stdout so far
Avail == EndOff(k2done)

\* index of the line holding stream offset p (p < Avail)
LineAt(p) == CHOOSE i \in 1 .. k2done : EndOff(i - 1) <= p /\ p < EndOff(i)

\* line.startswith('U\t<kind>') for the line readline() returns at offset p:
\* only a line read from its first character can start with the marker prefix
StartsWith(p, kind) == stdin[LineAt(p)].k = kind /\ p = EndOff(LineAt(p) - 1)

\* "".join(pieces): the concatenation of pieces of the stream, written as the
\* ranges it covers (empty pieces vanish, adjacent ranges are one range)
Concat(pieces) ==
    LET ne == SelectSeq(pieces, LAMBDA r : r[1] # r[2])
        starts == {j \in 1 .. Len(ne) : j = 1 \/ ne[j - 1][2] # ne[j][1]}
        Nth(m) == CHOOSE j \in starts : Cardinality({i \in starts : i <= j}) = m
        EndOf(j) == CHOOSE k \in j .. Len(ne) :
                        /\ k = Len(ne) \/ (k + 1) \in starts
                        /\ \A i \in (j + 1) .. k : i \notin starts
    IN [m \in 1 .. Cardinality(starts) |->
            << ne[Nth(m)][1], ne[EndOf(Nth(m))][2] >>]

\* the genuine output of client c's sample: its result lines, in stdin order
Genuine(c) ==
    Concat([i \in 1 .. Len(stdin) |->
              IF stdin[i].k = "SEQ" /\ stdin[i].c = c
              THEN << EndOff(i - 1), EndOff(i) >> ELSE << 0, 0 >>])

\* lines a range of the stream touches
LinesOf(r) == {i \in 1 .. Len(stdin) : EndOff(i - 1) < r[2] /\ r[1] < EndOff(i)}

\* ------------------------------------------------------------------- Init
Init ==
    /\ lock = FALSE
    /\ all_seqs_submitted_event = FALSE
    /\ start_sample_event = TRUE
    /\ terminate_event = FALSE
    /\ tpc = "idle"
    /\ k2eof = FALSE
    /\ stdin = << >>
    /\ k2done = 0
    /\ rd = 0
    /\ ipc = "poll"
    /\ cur = NoReq
    /\ reply = NoRep
    /\ rpc = "loop"
    /\ final_lines = << >>
    /\ rmsg = NoMsg
    /\ rack = FALSE
    /\ creq = [c \in Clients |-> NoReq]
    /\ crep = [c \in Clients |-> NoRep]
    /\ cpc = [c \in Clients |-> "init"]
    /\ csize = [c \in Clients |-> 0]
    /\ csent = [c \in Clients |-> 0]
    /\ cout = [c \in Clients |-> << >>]
    /\ cdone = [c \in Clients |-> FALSE]
    /\ holder = 0
    /\ session = [c \in Clients |-> "IDLE"]
    /\ msgs = << >>
    /\ unacked = 0
    /\ overlap = FALSE
    /\ owed = 0
    /\ mark = 0
    /\ seen = FALSE

\* ------------------------------------------------------------ kraken2
\* kraken2 --batch-size K2_BATCH_SIZE: results are written once a whole batch
\* of records has been read; one result line per record, in input order.
K2Process ==
    /\ ~k2eof
    /\ Len(stdin) - k2done >= K2_BATCH_SIZE
    /\ k2done' = k2done + K2_BATCH_SIZE
    /\ UNCHANGED << srvFlags, stdin, recvVars, retVars, resVars, ctlVars,
                    cliVars, histVars >>

\* ------------------------------------------------------ recv (ingest loop)
\* route = KrakenSignals(unpackb(query[0])).name.lower(); getattr(self, route):
\* a value outside the enum raises ValueError, NOT_DONE / DONE have no handler
\* (AttributeError); either way the thread dies ("dead").
Route(sig) ==
    CASE sig = "START" -> "start"
      [] sig = "RUN_BATCH" -> "run_batch"
      [] sig = "STOP" -> "stop"
      [] OTHER -> "dead"

\* query = self.input_socket.recv_multipart(); dispatch
RecvRequest(c) ==
    /\ ipc = "poll"
    /\ ~terminate_event
    /\ creq[c].sig # "NONE"
    /\ cur' = creq[c]
    /\ creq' = [creq EXCEPT ![c] = NoReq]
    /\ ipc' = Route(creq[c].sig)
    /\ mark' = Len(stdin)
    /\ owed' = owed + 1
    /\ UNCHANGED << srvFlags, k2Vars, reply, retVars, resVars, crep, cliVars,
                    holder, session, msgs, unacked, overlap, seen >>

\* (a start() that does not test the lock)
StartGrantsAlways(l) == TRUE

\* start(): `if self.lock is False`
StartGrants(l) == l = FALSE

\* (a start() that answers 1 whether or not it got the lock)
StartReplyOne(granted) == "1"

\* reply = 1 if the lock was acquired, else reply = 0
StartReply(granted) == IF granted THEN "1" ELSE "0"

StartCheck ==
    /\ ipc = "start"
    /\ seen' = lock
    /\ IF StartGrants(lock)
       THEN ipc' = "st_write" /\ reply' = reply
       ELSE ipc' = "send" /\ reply' = StartReply(FALSE)
    /\ UNCHANGED << srvFlags, k2Vars, cur, retVars, resVars, ctlVars, cliVars,
                    holder, session, msgs, unacked, overlap, owed, mark >>

\* self.k2proc.stdin.write(self.fake_sequence.format('START'))
StartWrite ==
    /\ ipc = "st_write"
    /\ ~k2eof
    /\ stdin' = Write(stdin, << Filler("START", 0) >>)
    /\ ipc' = "st_set"
    /\ UNCHANGED << srvFlags, k2done, cur, reply, retVars, resVars, ctlVars,
                    cliVars, histVars >>

\* self.start_sample_event.set()
StartSet ==
    /\ ipc = "st_set"
    /\ start_sample_event' = TRUE
    /\ ipc' = "st_clear"
    /\ UNCHANGED << lock, all_seqs_submitted_event, lifeVars, k2Vars, cur,
                    reply, retVars, resVars, ctlVars, cliVars, histVars >>

\* (a start() that leaves all-input-submitted as the last session left it)
StartClearSkips ==
    /\ ipc = "st_clear"
    /\ ipc' = "st_lock"
    /\ UNCHANGED << srvFlags, k2Vars, cur, reply, retVars, resVars, ctlVars,
                    cliVars, histVars >>

\* self.all_seqs_submitted_event.clear()
StartClear ==
    /\ ipc = "st_clear"
    /\ all_seqs_submitted_event' = FALSE
    /\ ipc' = "st_lock"
    /\ UNCHANGED << lock, start_sample_event, lifeVars, k2Vars, cur,
                    reply, retVars, resVars, ctlVars, cliVars, histVars >>

\* self.lock = True; reply = 1
StartLock ==
    /\ ipc = "st_lock"
    /\ lock' = TRUE
    /\ reply' = StartReply(TRUE)
    /\ ipc' = "send"
    /\ holder' = cur.c
    /\ session' = [session EXCEPT ![cur.c] = "ACTIVE"]
    /\ msgs' = << >>
    /\ UNCHANGED << all_seqs_submitted_event, start_sample_event, lifeVars,
                    k2Vars, cur, retVars, resVars, ctlVars, cliVars,
                    unacked, overlap, owed, mark, seen >>

\* (a run_batch() that takes the final flag for the end of the sample)
BatchWriteEnds(q) == IF q.final THEN q.recs \o << Filler("END", 0) >> ELSE q.recs

\* what run_batch() writes to stdin for a request
BatchWrite(q) == q.recs

\* run_batch(): write the chunk, flush, acknowledge
RunBatch ==
    /\ ipc = "run_batch"
    /\ k2eof => BatchWrite(cur) = << >>
    /\ stdin' = Write(stdin, BatchWrite(cur))
    /\ reply' = "chunk"
    /\ ipc' = "send"
    /\ UNCHANGED << srvFlags, k2done, cur, retVars, resVars, ctlVars, cliVars,
                    histVars >>

\* (a stop() whose signal takes the demultiplexer out of a streaming read)
StopSetInterrupts ==
    /\ ipc = "stop"
    /\ all_seqs_submitted_event' = TRUE
    /\ ipc' = "sp_end"
    /\ rpc' = IF rpc = "read" THEN "drain" ELSE rpc
    /\ UNCHANGED << lock, start_sample_event, lifeVars, k2Vars, cur,
                    reply, final_lines, rd, resVars, ctlVars, cliVars, histVars >>

\* stop(): self.all_seqs_submitted_event.set()
StopSet ==
    /\ ipc = "stop"
    /\ all_seqs_submitted_event' = TRUE
    /\ ipc' = "sp_end"
    /\ UNCHANGED << lock, start_sample_event, lifeVars, k2Vars, cur,
                    reply, retVars, resVars, ctlVars, cliVars, histVars >>

\* self.k2proc.stdin.write(self.fake_sequence.format('END'))
StopEnd ==
    /\ ipc = "sp_end"
    /\ ~k2eof
    /\ stdin' = Write(stdin, << Filler("END", 0) >>)
    /\ ipc' = "sp_flush"
    /\ UNCHANGED << srvFlags, k2done, cur, reply, retVars, resVars, ctlVars,
                    cliVars, histVars >>

\* (a stop() that also gives the slot back)
StopFlushReleases ==
    /\ ipc = "sp_flush"
    /\ ~k2eof
    /\ stdin' = Write(stdin, flush_seqs)
    /\ reply' = "stop"
    /\ ipc' = "send"
    /\ lock' = FALSE
    /\ UNCHANGED << all_seqs_submitted_event, start_sample_event, lifeVars, k2done,
                    cur, retVars, resVars, ctlVars, cliVars, histVars >>

\* self.k2proc.stdin.write(self.flush_seqs); return the acknowledgement
StopFlush ==
    /\ ipc = "sp_flush"
    /\ ~k2eof
    /\ stdin' = Write(stdin, flush_seqs)
    /\ reply' = "stop"
    /\ ipc' = "send"
    /\ UNCHANGED << srvFlags, k2done, cur, retVars, resVars, ctlVars, cliVars,
                    histVars >>

\* self.input_socket.send(msg)
SendReply ==
    /\ ipc = "send"
    /\ crep' = [crep EXCEPT ![cur.c] = reply]
    /\ ipc' = "poll"
    /\ cur' = NoReq
    /\ reply' = NoRep
    /\ owed' = owed - 1
    /\ UNCHANGED << srvFlags, k2Vars, retVars, resVars, creq, cliVars,
                    holder, session, msgs, unacked, overlap, mark, seen >>

\* ------------------------------------------ return_results (demultiplexer)
\* self.return_socket.send_multipart([packb(signal), payload])
ResultSend(sig, pl) ==
    /\ rmsg' = [sig |-> sig, pl |-> pl]
    /\ msgs' = Append(msgs, sig)
    /\ unacked' = unacked + 1

\* self.return_socket.recv(): blocks until the peer's reply is there
ResultAcked ==
    /\ rack
    /\ rack' = FALSE
    /\ unacked' = unacked - 1

\* `while not self.terminate_event.is_set(): if self.lock:` (else sleep(1))
DemuxLoop ==
    /\ rpc = "loop"
    /\ ~terminate_event
    /\ lock
    /\ rpc' = "chk_start"
    /\ UNCHANGED << srvFlags, k2Vars, recvVars, final_lines, rd, resVars, ctlVars,
                    cliVars, histVars >>

\* (a loop that does not wait for the start marker)
DemuxSkipsStart ==
    /\ rpc = "chk_start"
    /\ rpc' = "chk_all"
    /\ UNCHANGED << srvFlags, k2Vars, recvVars, final_lines, rd, resVars, ctlVars,
                    cliVars, histVars >>

\* `if self.start_sample_event.is_set():`
DemuxCheckStart ==
    /\ rpc = "chk_start"
    /\ rpc' = IF start_sample_event THEN "rd_start" ELSE "chk_all"
    /\ UNCHANGED << srvFlags, k2Vars, recvVars, final_lines, rd, resVars, ctlVars,
                    cliVars, histVars >>

\* readline() until a line starts with 'U\tSTART'; every line read is dropped
DemuxReadStart ==
    /\ rpc = "rd_start"
    /\ rd < Avail
    /\ rd' = EndOff(LineAt(rd))
    /\ IF StartsWith(rd, "START")
       THEN start_sample_event' = FALSE /\ rpc' = "chk_all"
       ELSE start_sample_event' = start_sample_event /\ rpc' = rpc
    /\ UNCHANGED << lock, all_seqs_submitted_event, lifeVars, k2Vars,
                    recvVars, final_lines, resVars, ctlVars, cliVars, histVars >>

\* `if self.all_seqs_submitted_event.is_set():` final_lines = []
DemuxCheckAll ==
    /\ rpc = "chk_all"
    /\ rpc' = IF all_seqs_submitted_event THEN "drain" ELSE "read"
    /\ final_lines' = << >>
    /\ UNCHANGED << srvFlags, k2Vars, recvVars, rd, resVars, ctlVars, cliVars,
                    histVars >>

\* drain: readline(); on 'U\tEND' send the joined final lines as NOT_DONE,
\* else final_lines.append(line)
DemuxDrain ==
    /\ rpc = "drain"
    /\ rd < Avail
    /\ rd' = EndOff(LineAt(rd))
    /\ IF StartsWith(rd, "END")
       THEN /\ ResultSend("NOT_DONE", Concat(final_lines))
            /\ rpc' = "wait_final"
            /\ final_lines' = final_lines
       ELSE /\ final_lines' = Append(final_lines, << rd, EndOff(LineAt(rd)) >>)
            /\ rpc' = rpc
            /\ UNCHANGED << rmsg, msgs, unacked >>
    /\ UNCHANGED << srvFlags, k2Vars, recvVars, rack, ctlVars, cliVars,
                    holder, session, overlap, owed, mark, seen >>

\* recv() the reply to the final NOT_DONE, then send DONE
DemuxSendDone ==
    /\ rpc = "wait_final"
    /\ rack
    /\ rack' = FALSE
    /\ rmsg' = [sig |-> "DONE", pl |-> << >>]
    /\ msgs' = Append(msgs, "DONE")
    /\ unacked' = unacked
    /\ rpc' = "wait_done"
    /\ UNCHANGED << srvFlags, k2Vars, recvVars, final_lines, rd, ctlVars, cliVars,
                    holder, session, overlap, owed, mark, seen >>

\* recv() the reply to DONE
DemuxDoneAcked ==
    /\ rpc = "wait_done"
    /\ ResultAcked
    /\ rpc' = "release"
    /\ UNCHANGED << srvFlags, k2Vars, recvVars, final_lines, rd, rmsg, ctlVars,
                    cliVars, holder, session, msgs, overlap, owed, mark, seen >>

\* self.lock = False; continue
DemuxRelease ==
    /\ rpc = "release"
    /\ lock' = FALSE
    /\ session' = [session EXCEPT ![holder] = "IDLE"]
    /\ rpc' = "loop"
    /\ UNCHANGED << all_seqs_submitted_event, start_sample_event, lifeVars,
                    k2Vars, recvVars, final_lines, rd, resVars, ctlVars, cliVars,
                    holder, msgs, unacked, overlap, owed, mark, seen >>

\* stdout = self.k2proc.stdout.read(10000): a text-mode read of n characters
\* returns only when n characters have been read (or at end of file); then
\* send them as NOT_DONE
DemuxRead ==
    /\ rpc = "read"
    /\ Avail - rd >= READ_SIZE
    /\ rd' = rd + READ_SIZE
    /\ ResultSend("NOT_DONE", << << rd, rd + READ_SIZE >> >>)
    /\ rpc' = "wait_nd"
    /\ UNCHANGED << srvFlags, k2Vars, recvVars, final_lines, rack, ctlVars,
                    cliVars, holder, session, overlap, owed, mark, seen >>

\* recv() the reply to a streaming NOT_DONE
DemuxChunkAcked ==
    /\ rpc = "wait_nd"
    /\ ResultAcked
    /\ rpc' = "loop"
    /\ UNCHANGED << srvFlags, k2Vars, recvVars, final_lines, rd, rmsg, ctlVars,
                    cliVars, holder, session, msgs, overlap, owed, mark, seen >>

\* ----------------------------------------------------------------- clients
\* a sample is complete for its client: STOP acknowledged and DONE received
Completed(c) == cpc[c] = "sent_all" /\ cdone[c]
\* the client has sent a START
Started(c) == csize[c] # 0

\* send START(sample_id); the size of the sample is fixed at the first START
ClientStart(c) ==
    /\ cpc[c] = "init"
    /\ \E n \in SampleSizes :
          csize' = [csize EXCEPT ![c] = IF csize[c] = 0 THEN n ELSE csize[c]]
    /\ creq' = [creq EXCEPT ![c] = Req("START", c, << >>, FALSE)]
    /\ cpc' = [cpc EXCEPT ![c] = "start_wait"]
    /\ overlap' = (overlap \/ \E d \in Clients \ {c} : Started(d) /\ ~Completed(d))
    /\ UNCHANGED << srvFlags, k2Vars, recvVars, retVars, resVars, crep, csent,
                    cout, cdone, holder, session, msgs, unacked, owed, mark, seen >>

\* START refused (reply 0): the client tries again
ClientRetry(c) ==
    /\ cpc[c] = "start_wait"
    /\ crep[c] = "0"
    /\ crep' = [crep EXCEPT ![c] = NoRep]
    /\ cpc' = [cpc EXCEPT ![c] = "init"]
    /\ UNCHANGED << srvFlags, k2Vars, recvVars, retVars, resVars, creq, csize,
                    csent, cout, cdone, histVars >>

\* the reply that lets the client go on sending its sample: START accepted
\* (reply 1) or the acknowledgement of a window
MaySend(pc, r) == (pc = "start_wait" /\ r = "1") \/ (pc = "batch_wait" /\ r # NoRep)

Min(a, b) == IF a < b THEN a ELSE b

\* the request a client sends after the server's reply r to its previous one:
\* the next window of the sample as RUN_BATCH, or, the input exhausted, the
\* final RUN_BATCH with an empty payload and the final flag
SendNext(c, go) ==
    /\ go
    /\ crep' = [crep EXCEPT ![c] = NoRep]
    /\ IF csent[c] < csize[c]
       THEN LET k == Min(WindowRecs, csize[c] - csent[c])
            IN /\ creq' = [creq EXCEPT ![c] =
                             Req("RUN_BATCH", c,
                                 [i \in 1 .. k |-> SeqRec(c, csent[c] + i)], FALSE)]
               /\ csent' = [csent EXCEPT ![c] = csent[c] + k]
               /\ cpc' = [cpc EXCEPT ![c] = "batch_wait"]
       ELSE /\ creq' = [creq EXCEPT ![c] = Req("RUN_BATCH", c, << >>, TRUE)]
            /\ csent' = csent
            /\ cpc' = [cpc EXCEPT ![c] = "final_wait"]
    /\ UNCHANGED << srvFlags, k2Vars, recvVars, retVars, resVars, csize,
                    cout, cdone, histVars >>

\* socket.recv() of the mandatory reply, then the next RUN_BATCH
ClientSendBatch(c) == SendNext(c, MaySend(cpc[c], crep[c]))

\* the final RUN_BATCH acknowledged: send STOP(sample_id)
ClientSendStop(c) ==
    /\ cpc[c] = "final_wait"
    /\ crep[c] # NoRep
    /\ crep' = [crep EXCEPT ![c] = NoRep]
    /\ creq' = [creq EXCEPT ![c] = Req("STOP", c, << >>, FALSE)]
    /\ cpc' = [cpc EXCEPT ![c] = "stop_wait"]
    /\ UNCHANGED << srvFlags, k2Vars, recvVars, retVars, resVars, csize,
                    csent, cout, cdone, histVars >>

\* STOP acknowledged: everything has been sent
ClientStopAcked(c) ==
    /\ cpc[c] = "stop_wait"
    /\ crep[c] # NoRep
    /\ crep' = [crep EXCEPT ![c] = NoRep]
    /\ cpc' = [cpc EXCEPT ![c] = "sent_all"]
    /\ UNCHANGED << srvFlags, k2Vars, recvVars, retVars, resVars, creq, csize,
                    csent, cout, cdone, histVars >>

\* receive_results: recv, reply, return on DONE, else append the payload
ClientRecv(c) ==
    /\ rmsg.sig # "NONE"
    /\ holder = c
    /\ ~cdone[c]
    /\ rmsg' = NoMsg
    /\ rack' = TRUE
    /\ IF rmsg.sig = "DONE"
       THEN cdone' = [cdone EXCEPT ![c] = TRUE] /\ cout' = cout
       ELSE cout' = [cout EXCEPT ![c] = Concat(cout[c] \o rmsg.pl)] /\ cdone' = cdone
    /\ UNCHANGED << srvFlags, k2Vars, recvVars, retVars, ctlVars, cpc, csize,
                    csent, histVars >>

\* run_query does not look at the reply to START (socket.recv() and on to the
\* first window): a refused client sends its sample all the same
ClientIgnoreReject(c) == SendNext(c, cpc[c] = "start_wait" /\ crep[c] = "0")

\* an envelope whose signal is none of START, STOP, RUN_BATCH
ClientSendOther(c) ==
    /\ cpc[c] = "init"
    /\ creq' = [creq EXCEPT ![c] = Req("OTHER", c, << >>, FALSE)]
    /\ cpc' = [cpc EXCEPT ![c] = "other_wait"]
    /\ UNCHANGED << srvFlags, k2Vars, recvVars, retVars, resVars, crep, csize,
                    csent, cout, cdone, histVars >>

\* ------------------------------------------------------------ specification
Ingest ==
    \/ \E c \in Clients : RecvRequest(c)
    \/ StartCheck \/ StartWrite \/ StartSet \/ StartClear \/ StartLock
    \/ RunBatch
    \/ StopSet \/ StopEnd \/ StopFlush
    \/ SendReply

Demux ==
    \/ DemuxLoop \/ DemuxCheckStart \/ DemuxReadStart \/ DemuxCheckAll
    \/ DemuxDrain \/ DemuxSendDone \/ DemuxDoneAcked \/ DemuxRelease
    \/ DemuxRead \/ DemuxChunkAcked

Client(c) ==
    \/ ClientStart(c) \/ ClientRetry(c) \/ ClientSendBatch(c)
    \/ ClientSendStop(c) \/ ClientStopAcked(c) \/ ClientRecv(c)

Next == Ingest \/ Demux \/ K2Process \/ \E c \in Clients : Client(c)

Spec == Init /\ [][Next]_vars

\* Clients that need not follow the protocol of a well-behaved session.
NextAny ==
    \/ Next
    \/ \E c \in Clients : ClientIgnoreReject(c)
    \/ \E c \in Clients : ClientSendOther(c)

SpecAny == Init /\ [][NextAny]_vars

\* Both server threads, the subprocess and the clients' threads are scheduled
\* again and again: each takes a step it can take.  The REP socket of the
\* control endpoint fair-queues its peers, so a request that stays pending is
\* received.
FairSpec ==
    /\ Spec
    /\ WF_vars(Ingest)
    /\ \A c \in Clients : SF_vars(RecvRequest(c))
    /\ WF_vars(Demux)
    /\ WF_vars(K2Process)
    /\ \A c \in Clients : WF_vars(Client(c))

\* ------------------------------------------------------------------ claims
Active == {c \in Clients : session[c] # "IDLE"}

\* C1: mutual exclusion of sessions.  In every reachable state at most one
\* session is non-IDLE, the slot is occupied exactly when a session is, and
\* while start() is on its granting path (between the test of the lock and
\* the reply) no previously granted session is still unreleased.
C1_MutualExclusion ==
    /\ Cardinality(Active) <= 1
    /\ lock <=> Active # {}
    /\ ipc \in {"st_write", "st_set", "st_clear", "st_lock"} => Active = {}

\* a second client's START is refused while another client's session is active
C1_Witness ==
    \E c \in Clients :
        /\ session[c] = "ACTIVE"
        /\ ipc = "send" /\ cur.sig = "START" /\ cur.c # c /\ reply = "0"

\* every character a client received belongs to a result line of its own sample
Clean(c) ==
    \A k \in 1 .. Len(cout[c]) :
        \A i \in LinesOf(cout[c][k]) : stdin[i].k = "SEQ" /\ stdin[i].c = c

\* C2: the concatenation of the NOT_DONE payloads a client received holds
\* nothing but result lines of its own sample (no Marker Line, no filler
\* result), and once DONE has arrived it is exactly the sample's genuine
\* output, in the order kraken2 wrote it.
C2_OutputIsGenuine ==
    \A c \in Clients :
        /\ Clean(c)
        /\ cdone[c] => cout[c] = Genuine(c)

\* C3: session completion.  Every granted session whose client has sent STOP
\* eventually has its END Marker Line observed, DONE delivered to the client
\* and the slot returned to IDLE.
C3_SessionCompletes ==
    \A c \in Clients :
        (session[c] = "ACTIVE" /\ cpc[c] = "stop_wait")
            ~> (cdone[c] /\ session[c] = "IDLE" /\ ~lock)

\* the stream of result-endpoint messages of a session: nothing follows a DONE
NothingAfterDone(m) == \A i \in 1 .. Len(m) : m[i] = "DONE" => i = Len(m)

\* no step is possible any more: every thread is blocked or has finished
Halted == ~ENABLED Next

\* C4: on the result endpoint a session gets NOT_DONE messages and then
\* exactly one DONE: never a message after the DONE, never a send before the
\* previous message was acknowledged, and the DONE is not missing once the
\* system has come to rest.
C4_ResultProtocol ==
    /\ NothingAfterDone(msgs)
    /\ unacked \in {0, 1}
    /\ rmsg.sig # "NONE" => unacked = 1 /\ ~rack
    /\ (Halted /\ holder # 0) => (msgs # << >> /\ msgs[Len(msgs)] = "DONE")

\* C5: every request the ingest loop receives gets exactly one reply before
\* the next request is read: at most one reply is owed, none while polling,
\* and a reply that is owed is still being produced by the loop.
C5_OneReplyPerRequest ==
    /\ owed \in {0, 1}
    /\ ipc = "poll" <=> owed = 0
    /\ owed = 1 => ENABLED Ingest

\* the part of the state a refused START has to leave alone
StartFrame == << stdin, lock, start_sample_event, all_seqs_submitted_event >>

\* C6: START is granted (reply 1, slot occupied) iff the slot was IDLE when
\* start() tested it; refused, the reply is 0 and the handler changes
\* nothing: no filler is written, slot and both flags keep their values.
C6_StartGrantedIffIdle ==
    /\ [](ipc = "send" /\ cur.sig = "START" =>
            /\ reply = "1" <=> ~seen
            /\ reply = "0" <=> seen
            /\ reply = "1" => lock /\ session[cur.c] = "ACTIVE"
            /\ reply = "0" => Len(stdin) = mark)
    /\ [][ipc = "start" /\ ipc' # ipc =>
            IF lock THEN ipc' = "send" /\ reply' = "0" /\ UNCHANGED StartFrame
                    ELSE ipc' = "st_write"]_vars
    /\ [][ipc = "send" /\ ipc' # ipc /\ cur.sig = "START" /\ reply = "0" =>
            UNCHANGED StartFrame]_vars

\* a START was refused because the slot was occupied
C6_Witness == ipc = "send" /\ cur.sig = "START" /\ reply = "0" /\ seen /\ lock

\* name of a stdin record, without its place in the output stream
Name(r) == << r.k, r.c, r.n >>

\* C7: stop() marks all-input-submitted, then writes one Filler Record tagged
\* END, then exactly K2_BATCH_SIZE plain Filler Records (DUMMY_0 ..), nothing
\* else, and then replies; what precedes them on stdin is the START filler
\* and the records of the sample.
C7_StopWrites ==
    /\ ipc = "sp_end" => all_seqs_submitted_event /\ Len(stdin) = mark
    /\ ipc = "sp_flush" =>
          /\ all_seqs_submitted_event
          /\ Len(stdin) = mark + 1
          /\ Name(stdin[mark + 1]) = << "END", 0, 0 >>
    /\ (ipc = "send" /\ cur.sig = "STOP") =>
          /\ all_seqs_submitted_event
          /\ Len(stdin) = mark + 1 + K2_BATCH_SIZE
          /\ Name(stdin[mark + 1]) = << "END", 0, 0 >>
          /\ \A x \in 1 .. K2_BATCH_SIZE :
                Name(stdin[mark + 1 + x]) = << "DUMMY", 0, x - 1 >>
          /\ mark > csize[cur.c]
          /\ Name(stdin[mark - csize[cur.c]]) = << "START", 0, 0 >>
          /\ \A n \in 1 .. csize[cur.c] :
                Name(stdin[mark - csize[cur.c] + n]) = << "SEQ", cur.c, n >>

\* stop() is about to reply for a sample of SmallSample records
C7_Witness ==
    /\ ipc = "send" /\ cur.sig = "STOP" /\ csize[cur.c] = SmallSample
    /\ Len(stdin) >= SmallSample + 1 + K2_BATCH_SIZE

\* C8: two samples run one after the other (no START sent while another
\* sample is under way, one sample already complete): each client's output
\* is made of result lines of its own sample only, equals the sample's
\* genuine output once DONE has arrived, and both samples complete.
C8_SequentialSamples ==
    (~overlap /\ \E d \in Clients : Completed(d)) =>
        \A c \in Clients :
            /\ Clean(c)
            /\ cdone[c] => cout[c] = Genuine(c)
            /\ (Halted /\ Started(c)) => Completed(c)

\* C9: with two clients whose requests interleave on the control endpoint,
\* the holder's output never holds a result line of the other client's
\* records, only the holder's STOP starts the end-of-sample sequence, and a
\* client that got DONE has exactly its own sample's genuine output.
C9_ConcurrentClients ==
    /\ \A c \in Clients : \A k \in 1 .. Len(cout[c]) :
          \A i \in LinesOf(cout[c][k]) : stdin[i].k = "SEQ" => stdin[i].c = c
    /\ ipc \in {"sp_end", "sp_flush"} => session[cur.c] = "ACTIVE"
    /\ \A c \in Clients : Completed(c) => cout[c] = Genuine(c)

\* C10: a START sent after a sample has completed (STOP acknowledged, DONE
\* received and acknowledged by its client) and with no other sample under
\* way is granted with reply 1.
C10_NextStartGranted ==
    (/\ ipc = "send" /\ cur.sig = "START"
     /\ ~overlap
     /\ \E d \in Clients \ {cur.c} : Completed(d)
     /\ \A d \in Clients \ {cur.c} : Started(d) => Completed(d))
    => reply = "1"

\* index of the last START filler written to stdin (0: none): the START of
\* the session granted last
LastStart ==
    IF \E i \in 1 .. Len(stdin) : stdin[i].k = "START"
    THEN CHOOSE i \in 1 .. Len(stdin) :
            stdin[i].k = "START" /\ \A j \in (i + 1) .. Len(stdin) : stdin[j].k # "START"
    ELSE 0

\* the last line read from the subprocess output is the END Marker Line of
\* the session granted last
EndMarkerRead ==
    \E i \in (LastStart + 1) .. k2done : stdin[i].k = "END" /\ EndOff(i) = rd

\* C11: the slot goes from occupied to IDLE only by a step of the
\* demultiplexer loop (its release), for the holder's session, after the END
\* Marker Line of that session has been read; no request handler (the ingest
\* thread takes no part in the step) releases it.
C11_ReleaseOnlyByDemux ==
    [][(lock /\ ~lock') \/ (\E c \in Clients : session[c] # "IDLE" /\ session'[c] = "IDLE")
        => /\ rpc = "release" /\ rpc' = "loop"
           /\ UNCHANGED recvVars
           /\ EndMarkerRead
           /\ lock /\ ~lock'
           /\ holder \in Clients /\ session[holder] = "ACTIVE"
           /\ session' = [session EXCEPT ![holder] = "IDLE"]]_vars

\* a session has been released after its END Marker Line was read
C11_Witness ==
    /\ ~lock /\ rpc = "loop" /\ holder \in Clients
    /\ session[holder] = "IDLE" /\ cdone[holder] /\ EndMarkerRead

\* ---------------------------------------------------------------- shutdown
flagVars == << lock, all_seqs_submitted_event, start_sample_event >>
restVars == << k2Vars, recvVars, retVars, resVars, ctlVars, cliVars, histVars >>

\* terminate(): `while self.lock:` has found the lock free
TerminateWait ==
    /\ tpc = "idle"
    /\ ~lock
    /\ tpc' = "set"
    /\ UNCHANGED << flagVars, terminate_event, k2eof, restVars >>

\* self.terminate_event.set()
TerminateSet ==
    /\ tpc = "set"
    /\ terminate_event' = TRUE
    /\ tpc' = "join"
    /\ UNCHANGED << flagVars, k2eof, restVars >>

\* `if all([not x.is_alive() ...]): break`: both threads have ended
TerminateJoin ==
    /\ tpc = "join"
    /\ ipc \in {"closed", "dead"}
    /\ rpc = "closed"
    /\ tpc' = "returned"
    /\ UNCHANGED << flagVars, terminate_event, k2eof, restVars >>

Terminate == TerminateWait \/ TerminateSet \/ TerminateJoin

\* recv: the loop condition fails; input_socket.close(), input_context.term()
RecvExit ==
    /\ ipc = "poll"
    /\ terminate_event
    /\ ipc' = "closed"
    /\ UNCHANGED << srvFlags, k2Vars, cur, reply, retVars, resVars, ctlVars,
                    cliVars, histVars >>

\* return_results: the loop condition fails; return_socket.close(),
\* return_context.term()
DemuxExit ==
    /\ rpc = "loop"
    /\ terminate_event
    /\ rpc' = "closed"
    /\ UNCHANGED << srvFlags, k2Vars, recvVars, final_lines, rd, resVars,
                    ctlVars, cliVars, histVars >>

\* the server with a caller of terminate()
NextTerm == Next \/ Terminate \/ RecvExit \/ DemuxExit

SpecTerm == Init /\ [][NextTerm]_vars

\* C12: a loop that has exited and closed its socket finds the slot IDLE: in
\* every reachable state in which recv or return_results has exited, no
\* session is non-IDLE and the lock is free, also when a START arrives while
\* terminate() is running.
C12_ShutdownWaitsForIdle ==
    (ipc = "closed" \/ rpc = "closed") => (~lock /\ Active = {})

\* no step is possible any more in the server with a caller of terminate()
HaltedTerm == ~ENABLED NextTerm

\* C13: once the shutdown signal is set both loops leave their wait and
\* exit and terminate() returns: the system never comes to rest with the
\* signal set and a loop still inside its wait.
C13_ShutdownTerminates ==
    (terminate_event /\ HaltedTerm) =>
        (ipc = "closed" /\ rpc = "closed" /\ tpc = "returned")

\* ------------------------------------------------------ subprocess failure
\* the kraken2 process exits: what it had not written yet is lost, its end of
\* both pipes is closed
K2Exit ==
    /\ ~k2eof
    /\ k2eof' = TRUE
    /\ UNCHANGED << flagVars, terminate_event, tpc, restVars >>

\* k2proc.stdin.write on the closed pipe raises BrokenPipeError: nothing
\* catches it and the recv thread ends without a reply
WriteFails ==
    /\ k2eof
    /\ \/ ipc \in {"st_write", "sp_end", "sp_flush"}
       \/ ipc = "run_batch" /\ BatchWrite(cur) # << >>
    /\ ipc' = "dead"
    /\ UNCHANGED << srvFlags, k2Vars, cur, reply, retVars, resVars, ctlVars,
                    cliVars, histVars >>

\* stdout.read(10000) at end of file returns the characters that are left,
\* fewer than asked for and possibly none; they are sent as NOT_DONE (a run of
\* empty NOT_DONE messages is recorded once in msgs).  readline() at end of
\* file returns '' at once: the awaiting-start-marker loop and the drain loop
\* go round without a change of state.
DemuxReadEof ==
    /\ rpc = "read"
    /\ k2eof
    /\ Avail - rd < READ_SIZE
    /\ rd' = Avail
    /\ rmsg' = [sig |-> "NOT_DONE", pl |-> << << rd, Avail >> >>]
    /\ msgs' = IF rd = Avail /\ msgs # << >> /\ msgs[Len(msgs)] = "NOT_DONE"
               THEN msgs ELSE Append(msgs, "NOT_DONE")
    /\ unacked' = unacked + 1
    /\ rpc' = "wait_nd"
    /\ UNCHANGED << srvFlags, k2Vars, recvVars, final_lines, rack, ctlVars,
                    cliVars, holder, session, overlap, owed, mark, seen >>

\* the server with a kraken2 process that may exit
NextFail == Next \/ K2Exit \/ WriteFails \/ DemuxReadEof

SpecFail == Init /\ [][NextFail]_vars

\* no step is possible any more in the server whose subprocess may exit
HaltedFail == ~ENABLED NextFail

\* C14: when the subprocess has exited while a session was non-IDLE the
\* session is abandoned and the slot force-released: the system does not
\* come to rest with the subprocess gone and the slot still occupied.
C14_SubprocessFailureReleases ==
    (k2eof /\ HaltedFail) => (~lock /\ Active = {})

\* C15: the wait for the END Marker Line is bounded: the system never comes
\* to rest with the demultiplexer inside the end-of-sample drain, still
\* waiting for a line that starts with the end-marker prefix, and the slot
\* occupied.
C15_DrainIsBounded == ~(HaltedFail /\ rpc = "drain" /\ all_seqs_submitted_event /\ lock)

\* ------------------------------------------------- run_query (src/client.py)
\* the reply to the final RUN_BATCH is received and run_query returns; no
\* STOP is sent
ClientReturn(c) ==
    /\ cpc[c] = "final_wait"
    /\ crep[c] # NoRep
    /\ crep' = [crep EXCEPT ![c] = NoRep]
    /\ cpc' = [cpc EXCEPT ![c] = "returned"]
    /\ UNCHANGED << srvFlags, k2Vars, recvVars, retVars, resVars, creq, csize,
                    csent, cout, cdone, histVars >>

\* a later call run_query(query = [STOP]): STOP is sent on a new socket and
\* the call returns without a recv()
ClientQueryStop(c) ==
    /\ cpc[c] = "returned"
    /\ creq' = [creq EXCEPT ![c] = Req("STOP", c, << >>, FALSE)]
    /\ cpc' = [cpc EXCEPT ![c] = "stop_sent"]
    /\ UNCHANGED << srvFlags, k2Vars, recvVars, retVars, resVars, crep, csize,
                    csent, cout, cdone, histVars >>

ClientQuery(c) ==
    \/ ClientStart(c) \/ ClientSendBatch(c) \/ ClientIgnoreReject(c)
    \/ ClientReturn(c) \/ ClientQueryStop(c) \/ ClientRecv(c)

\* the server with clients that run run_query
NextQuery == Ingest \/ Demux \/ K2Process \/ \E c \in Clients : ClientQuery(c)

SpecQuery == Init /\ [][NextQuery]_vars

\* client c sends a request in this step
Sends(c) == creq'[c] # creq[c] /\ creq'[c].sig # "NONE"

\* C16: a client session sends START, then one RUN_BATCH per window, then
\* the final RUN_BATCH (empty payload, final flag) once the input is
\* exhausted, then STOP for its sample; every request but the first is sent
\* with the reply to the previous one received, and the step that follows
\* the reply to the final RUN_BATCH is the sending of STOP.
C16_ClientRequestOrder ==
    /\ [][\A c \in Clients : Sends(c) =>
            /\ creq[c].sig = "NONE"
            /\ creq'[c].c = c
            /\ creq'[c].sig = "START" <=> cpc[c] = "init"
            /\ cpc[c] # "init" => crep[c] # NoRep
            /\ creq'[c].sig = "RUN_BATCH" <=> cpc[c] \in {"start_wait", "batch_wait"}
            /\ creq'[c].sig = "RUN_BATCH" =>
                  /\ creq'[c].final <=> csent[c] = csize[c]
                  /\ creq'[c].final <=> creq'[c].recs = << >>
                  /\ Len(creq'[c].recs) <= WindowRecs
                  /\ csent'[c] = csent[c] + Len(creq'[c].recs)
            /\ creq'[c].sig = "STOP" <=> cpc[c] = "final_wait"]_vars
    /\ [][\A c \in Clients :
            cpc[c] = "final_wait" /\ cpc'[c] # cpc[c] =>
                creq'[c].sig = "STOP" /\ cpc'[c] = "stop_wait"]_vars

\* C17: run_batch() appends its payload, unchanged, to the subprocess input
\* and replies; whatever the continuation flag it leaves the slot, the
\* all-input-submitted and awaiting-start-marker flags and the sessions as
\* they are and writes no END or flush Filler Record.
C17_RunBatchFrame ==
    [][ipc = "run_batch" /\ ipc' # ipc =>
          /\ ipc' = "send" /\ reply' = "chunk"
          /\ Len(stdin') = Len(stdin) + Len(cur.recs)
          /\ \A i \in 1 .. Len(stdin) : stdin'[i] = stdin[i]
          /\ \A i \in 1 .. Len(cur.recs) :
                Name(stdin'[Len(stdin) + i]) = Name(cur.recs[i])
          /\ UNCHANGED << lock, all_seqs_submitted_event, start_sample_event,
                          terminate_event, session, holder >>]_vars

\* the final RUN_BATCH of a sample has been handled and STOP has not
C17_Witness ==
    /\ ipc = "send" /\ cur.sig = "RUN_BATCH" /\ cur.final /\ reply = "chunk"
    /\ lock /\ ~all_seqs_submitted_event
    /\ Len(stdin) = mark /\ stdin[Len(stdin)].k = "SEQ"

\* offset of the first character kraken2 writes after the START Marker Line
\* of the session granted last
AfterStartMarker == EndOff(LastStart)

\* C18: after a granted START nothing is forwarded until the START Marker
\* Line has been read: while the session awaits its start marker no message
\* has been sent and no line past the marker has been read; the marker read,
\* every line up to and including it has been dropped, and the first
\* character forwarded to the client is the first one after the marker.
C18_NothingBeforeStartMarker ==
    (lock /\ holder \in Clients) =>
        /\ start_sample_event =>
              /\ msgs = << >> /\ rmsg = NoMsg /\ cout[holder] = << >>
              /\ rd <= EndOff(LastStart - 1)
        /\ ~start_sample_event => rd >= AfterStartMarker
        /\ (rpc = "chk_all" /\ msgs = << >>) => rd = AfterStartMarker
        /\ (rmsg.sig = "NOT_DONE" /\ Len(msgs) = 1 /\ rmsg.pl # << >>) =>
              rmsg.pl[1][1] = AfterStartMarker
        /\ cout[holder] # << >> => cout[holder][1][1] = AfterStartMarker

\* a second session, granted with filler results of the previous flush still
\* unread, has had its first characters forwarded
C18_Witness ==
    /\ lock /\ holder \in Clients /\ ~start_sample_event
    /\ LastStart > 1 /\ stdin[LastStart - 1].k = "DUMMY"
    /\ cout[holder] # << >> /\ cout[holder][1][1] = AfterStartMarker

\* C19: the all-input-submitted signal is fire-and-forget.  The step of
\* stop() that sets it changes nothing of the demultiplexer (neither its
\* position nor what it has read or sent); the loop chooses the streaming
\* read on the value it saw before, and a streaming read once started ends
\* only with its READ_SIZE characters sent as NOT_DONE.  So the loop can be
\* inside a streaming read of the session with the signal already set
\* (C19_Witness).
C19_SubmittedIsFireAndForget ==
    /\ [][(~all_seqs_submitted_event /\ all_seqs_submitted_event') =>
            /\ ipc = "stop" /\ ipc' = "sp_end"
            /\ UNCHANGED << retVars, resVars >>]_vars
    /\ [][(rpc = "chk_all" /\ rpc' = "read") => ~all_seqs_submitted_event]_vars
    /\ [][(rpc = "read" /\ rpc' # rpc) =>
            /\ rpc' = "wait_nd" /\ rd' = rd + READ_SIZE
            /\ rmsg' = [sig |-> "NOT_DONE", pl |-> << << rd, rd' >> >>]]_vars

\* stop() has set all-input-submitted for the holder's session and the
\* demultiplexer is inside the streaming read
C19_Witness ==
    /\ lock /\ holder \in Clients /\ session[holder] = "ACTIVE"
    /\ all_seqs_submitted_event
    /\ cpc[holder] \in {"stop_wait", "sent_all"}
    /\ rpc = "read"

\* a STOP has been handled (or is being handled, its signal set) after the
\* START of the session granted last
StopAfterStart ==
    \/ ipc \in {"sp_end", "sp_flush"}
    \/ \E i \in (LastStart + 1) .. Len(stdin) : stdin[i].k = "END"

\* C20: start() writes the START filler, arms awaiting-start-marker and
\* clears all-input-submitted before it makes the slot occupied.  So when
\* the slot is about to be taken the filler is the last record written, the
\* start flag is set and all-input-submitted is clear; whenever the slot is
\* occupied with all-input-submitted set a STOP was handled after the
\* session's START (the flag left by the previous session is never seen);
\* and whenever the demultiplexer awaits a START marker, its filler has been
\* written and its line not yet read.
C20_StartArmsBeforeLock ==
    /\ ipc = "st_lock" =>
          /\ start_sample_event /\ ~all_seqs_submitted_event /\ ~lock
          /\ LastStart = Len(stdin)
    /\ (ipc = "send" /\ cur.sig = "START" /\ reply = "1") => ~all_seqs_submitted_event
    /\ (lock /\ all_seqs_submitted_event) => StopAfterStart
    /\ (rpc = "rd_start" \/ (lock /\ start_sample_event)) =>
          /\ LastStart > 0
          /\ rd <= EndOff(LastStart - 1)

\* in a second session the demultiplexer finds the slot occupied and
\* all-input-submitted set by that session's STOP
C20_Witness ==
    /\ lock /\ all_seqs_submitted_event /\ rpc = "drain"
    /\ LastStart > 1 /\ StopAfterStart
    /\ \E i \in 1 .. (LastStart - 1) : stdin[i].k = "END"

=============================================================================
